---- MODULE Spec2Model ----
(***************************************************************************)
(* Model of the Smart Grocery Shopping Assistant client: the App component *)
(* (conversation store, localStorage persistence, expiry check, grocery    *)
(* list fetch effect) and the ChatBox component (chat submission flow).    *)
(*                                                                         *)
(* JavaScript strings are sequences of character atoms; a fixed literal of *)
(* the source may be one atom ("Error: "), the characters JSON treats      *)
(* specially (quote, backslash, newline, blank) are atoms of their own.    *)
(* JavaScript values are tagged records [t, v].                            *)
(***************************************************************************)
EXTENDS Integers, Sequences, FiniteSets, TLC

\* ------------------------------------------------------------------------
\* Bounds of the model
\* ------------------------------------------------------------------------
\* user requests in one run: chat submissions that pass the entry guard and
\* clicks on the "Check Expiries" button
MaxFlows == 2
\* appends applied directly to the conversation store in StoreSpec
MaxAppends == 2
\* characters of a stored blob in LoadSpec
MaxBlobLen == 3

\* ------------------------------------------------------------------------
\* JavaScript values
\* ------------------------------------------------------------------------
Null == [t |-> "null", v |-> <<>>]
Str(chars) == [t |-> "str", v |-> chars]
Num(n) == [t |-> "num", v |-> n]
Arr(elems) == [t |-> "arr", v |-> elems]
\* an object is the sequence of its <<key, value>> pairs in insertion order
Obj(pairs) == [t |-> "obj", v |-> pairs]

QUOTE == "\""
BSLASH == "\\"
NEWLINE == "\n"
BLANK == " "

HasKey(o, k) == o.t = "obj" /\ \E i \in 1..Len(o.v) : o.v[i][1] = k
\* o[k] of JavaScript: the value of the property, or undefined (here FALSE
\* is never returned: callers test HasKey first)
Get(o, k) == o.v[CHOOSE i \in 1..Len(o.v) : o.v[i][1] = k][2]

\* JavaScript truthiness of a value
Truthy(x) ==
  CASE x.t = "null" -> FALSE
    [] x.t = "str" -> x.v # <<>>
    [] x.t = "num" -> x.v # 0
    [] OTHER -> TRUE

\* decimal digits of a small natural, as a template literal prints it
Digit(d) ==
  CASE d = 0 -> "0" [] d = 1 -> "1" [] d = 2 -> "2" [] d = 3 -> "3"
    [] d = 4 -> "4" [] d = 5 -> "5" [] d = 6 -> "6" [] d = 7 -> "7"
    [] d = 8 -> "8" [] OTHER -> "9"

RECURSIVE NumStr(_)
NumStr(n) == IF n < 10 THEN <<Digit(n)>> ELSE NumStr(n \div 10) \o <<Digit(n % 10)>>

\* ------------------------------------------------------------------------
\* String.prototype.trim
\* ------------------------------------------------------------------------
IsSpace(c) == c = BLANK \/ c = NEWLINE

RECURSIVE TrimStart(_)
TrimStart(s) == IF s # <<>> /\ IsSpace(Head(s)) THEN TrimStart(Tail(s)) ELSE s

RECURSIVE TrimEnd(_)
TrimEnd(s) ==
  IF s # <<>> /\ IsSpace(s[Len(s)]) THEN TrimEnd(SubSeq(s, 1, Len(s) - 1)) ELSE s

Trim(s) == TrimEnd(TrimStart(s))

\* ------------------------------------------------------------------------
\* JSON.stringify and JSON.parse over sequences of character atoms
\* ------------------------------------------------------------------------
EscapeChar(c) ==
  CASE c = QUOTE -> <<BSLASH, QUOTE>>
    [] c = BSLASH -> <<BSLASH, BSLASH>>
    [] c = NEWLINE -> <<BSLASH, "n">>
    [] OTHER -> <<c>>

RECURSIVE Escape(_)
Escape(s) == IF s = <<>> THEN <<>> ELSE EscapeChar(Head(s)) \o Escape(Tail(s))

QuoteString(s) == <<QUOTE>> \o Escape(s) \o <<QUOTE>>

RECURSIVE Stringify(_)
RECURSIVE StringifyElems(_, _)
RECURSIVE StringifyMembers(_, _)

StringifyElems(elems, i) ==
  IF i > Len(elems) THEN <<>>
  ELSE (IF i > 1 THEN <<",">> ELSE <<>>)
       \o Stringify(elems[i]) \o StringifyElems(elems, i + 1)

StringifyMembers(pairs, i) ==
  IF i > Len(pairs) THEN <<>>
  ELSE (IF i > 1 THEN <<",">> ELSE <<>>)
       \o QuoteString(pairs[i][1]) \o <<":">> \o Stringify(pairs[i][2])
       \o StringifyMembers(pairs, i + 1)

Stringify(x) ==
  CASE x.t = "null" -> <<"null">>
    [] x.t = "str" -> QuoteString(x.v)
    [] x.t = "num" -> NumStr(x.v)
    [] x.t = "arr" -> <<"[">> \o StringifyElems(x.v, 1) \o <<"]">>
    [] OTHER -> <<"{">> \o StringifyMembers(x.v, 1) \o <<"}">>

\* a parse result: ok is FALSE where JSON.parse throws SyntaxError
ParseFail == [ok |-> FALSE, val |-> Null, pos |-> 0]
ParseOk(x, p) == [ok |-> TRUE, val |-> x, pos |-> p]

RECURSIVE SkipWs(_, _)
SkipWs(s, i) == IF i <= Len(s) /\ IsSpace(s[i]) THEN SkipWs(s, i + 1) ELSE i

\* the characters of a string literal whose opening quote is before s[i]
RECURSIVE ParseChars(_, _, _)
ParseChars(s, i, acc) ==
  IF i > Len(s) THEN ParseFail
  ELSE IF s[i] = QUOTE THEN ParseOk(Str(acc), i + 1)
  ELSE IF s[i] = NEWLINE THEN ParseFail
  ELSE IF s[i] = BSLASH THEN
    IF i + 1 > Len(s) THEN ParseFail
    ELSE IF s[i + 1] = QUOTE THEN ParseChars(s, i + 2, Append(acc, QUOTE))
    ELSE IF s[i + 1] = BSLASH THEN ParseChars(s, i + 2, Append(acc, BSLASH))
    ELSE IF s[i + 1] = "n" THEN ParseChars(s, i + 2, Append(acc, NEWLINE))
    ELSE ParseFail
  ELSE ParseChars(s, i + 1, Append(acc, s[i]))

RECURSIVE ParseValue(_, _)
RECURSIVE ParseElems(_, _, _)
RECURSIVE ParseMembers(_, _, _)

\* the elements of an array after "[" or after a ","
ParseElems(s, i, acc) ==
  LET e == ParseValue(s, i)
      j == SkipWs(s, e.pos)
  IN IF ~e.ok \/ j > Len(s) THEN ParseFail
     ELSE IF s[j] = "]" THEN ParseOk(Arr(Append(acc, e.val)), j + 1)
     ELSE IF s[j] = "," THEN ParseElems(s, j + 1, Append(acc, e.val))
     ELSE ParseFail

\* the members of an object after "{" or after a ","
ParseMembers(s, i, acc) ==
  LET k0 == SkipWs(s, i)
      k == IF k0 <= Len(s) /\ s[k0] = QUOTE THEN ParseChars(s, k0 + 1, <<>>)
           ELSE ParseFail
      c == SkipWs(s, k.pos)
      e == IF k.ok /\ c <= Len(s) /\ s[c] = ":" THEN ParseValue(s, c + 1)
           ELSE ParseFail
      j == SkipWs(s, e.pos)
  IN IF ~e.ok \/ j > Len(s) THEN ParseFail
     ELSE IF s[j] = "}" THEN ParseOk(Obj(Append(acc, <<k.val.v, e.val>>)), j + 1)
     ELSE IF s[j] = "," THEN ParseMembers(s, j + 1, Append(acc, <<k.val.v, e.val>>))
     ELSE ParseFail

ParseValue(s, i0) ==
  LET i == SkipWs(s, i0)
  IN IF i > Len(s) THEN ParseFail
     ELSE IF s[i] = QUOTE THEN ParseChars(s, i + 1, <<>>)
     ELSE IF s[i] = "null" THEN ParseOk(Null, i + 1)
     ELSE IF s[i] = "[" THEN
       LET j == SkipWs(s, i + 1)
       IN IF j <= Len(s) /\ s[j] = "]" THEN ParseOk(Arr(<<>>), j + 1)
          ELSE ParseElems(s, i + 1, <<>>)
     ELSE IF s[i] = "{" THEN
       LET j == SkipWs(s, i + 1)
       IN IF j <= Len(s) /\ s[j] = "}" THEN ParseOk(Obj(<<>>), j + 1)
          ELSE ParseMembers(s, i + 1, <<>>)
     ELSE ParseFail

\* JSON.parse: the whole text is one value, blanks around it allowed
JsonParse(s) ==
  LET r == ParseValue(s, 1)
  IN IF r.ok /\ SkipWs(s, r.pos) > Len(s) THEN r ELSE ParseFail

\* ------------------------------------------------------------------------
\* Template literals and JSON.stringify(value, null, 2)
\* ------------------------------------------------------------------------
RECURSIVE ToStr(_)
RECURSIVE JoinStr(_, _, _)

\* Array.prototype.join of the elements from index i on
JoinStr(elems, i, sep) ==
  IF i > Len(elems) THEN <<>>
  ELSE (IF i > 1 THEN sep ELSE <<>>) \o ToStr(elems[i]) \o JoinStr(elems, i + 1, sep)

\* String(x), as `${x}` applies it
ToStr(x) ==
  CASE x.t = "null" -> <<"null">>
    [] x.t = "str" -> x.v
    [] x.t = "num" -> NumStr(x.v)
    [] x.t = "arr" -> JoinStr(x.v, 1, <<",">>)
    [] OTHER -> <<"[object Object]">>

RECURSIVE Indent(_)
Indent(n) == IF n = 0 THEN <<>> ELSE <<BLANK>> \o Indent(n - 1)

RECURSIVE Pretty(_, _)
RECURSIVE PrettyElems(_, _, _)
RECURSIVE PrettyMembers(_, _, _)

PrettyElems(elems, i, ind) ==
  IF i > Len(elems) THEN <<>>
  ELSE (IF i > 1 THEN <<",", NEWLINE>> ELSE <<>>)
       \o Indent(ind) \o Pretty(elems[i], ind) \o PrettyElems(elems, i + 1, ind)

PrettyMembers(pairs, i, ind) ==
  IF i > Len(pairs) THEN <<>>
  ELSE (IF i > 1 THEN <<",", NEWLINE>> ELSE <<>>)
       \o Indent(ind) \o QuoteString(pairs[i][1]) \o <<":", BLANK>>
       \o Pretty(pairs[i][2], ind) \o PrettyMembers(pairs, i + 1, ind)

\* JSON.stringify(x, null, 2) of a value nested at indentation ind
Pretty(x, ind) ==
  CASE x.t = "null" -> <<"null">>
    [] x.t = "str" -> QuoteString(x.v)
    [] x.t = "num" -> NumStr(x.v)
    [] x.t = "arr" ->
         IF x.v = <<>> THEN <<"[", "]">>
         ELSE <<"[", NEWLINE>> \o PrettyElems(x.v, 1, ind + 2)
              \o <<NEWLINE>> \o Indent(ind) \o <<"]">>
    [] OTHER ->
         IF x.v = <<>> THEN <<"{", "}">>
         ELSE <<"{", NEWLINE>> \o PrettyMembers(x.v, 1, ind + 2)
              \o <<NEWLINE>> \o Indent(ind) \o <<"}">>

\* ------------------------------------------------------------------------
\* State
\* ------------------------------------------------------------------------
VARIABLES
  mounted,       \* the App component has mounted and its mount effects ran
  storage,       \* localStorage["chat_history"]: [has, raw, denied]
  lastWrite,     \* outcome of the latest localStorage.setItem: none, ok, throws
  written,       \* the history last stored by a successful setItem: [has, val]
  conversation,  \* useState<ChatMessage[]>: sequence of message objects
  isLoading,     \* useState(false)
  groceryList,   \* useState<GroceryRecord[]>: a JavaScript value
  triggerFetch,  \* useState(false)
  question,      \* ChatBox useState(''): characters of the textarea
  postFlight,    \* prompts of the POST /items requests awaiting a response
  expiryFlight,  \* number of GET /expiry requests awaiting a response
  itemsFlight,   \* number of GET /items requests awaiting a response
  escaped,       \* names of the handlers and effects a failure escaped from
  calls,         \* handler invocations so far (bounds the run)
  lastEvent      \* name of the handler or callback that ran last

vars == <<mounted, storage, lastWrite, written, conversation,
          isLoading, groceryList, triggerFetch, question, postFlight,
          expiryFlight, itemsFlight, escaped, calls, lastEvent>>

\* denied: the browser refuses access to localStorage, so that getItem and
\* setItem both throw (SecurityError)
NoItem == [has |-> FALSE, raw |-> <<>>, denied |-> FALSE]
Item(raw) == [has |-> TRUE, raw |-> raw, denied |-> FALSE]
Denied == [has |-> FALSE, raw |-> <<>>, denied |-> TRUE]
NoHistory == [has |-> FALSE, val |-> <<>>]

\* ------------------------------------------------------------------------
\* App: readHistory / writeHistory and the two storage effects
\* ------------------------------------------------------------------------
\* the try block of readHistory
ReadHistoryTry(st) ==
  IF st.denied THEN [threw |-> TRUE, val |-> <<>>]
  ELSE IF ~st.has \/ st.raw = <<>> THEN [threw |-> FALSE, val |-> <<>>]
  ELSE LET parsed == JsonParse(st.raw)
       IN IF ~parsed.ok THEN [threw |-> TRUE, val |-> <<>>]
          ELSE IF parsed.val.t = "arr" THEN [threw |-> FALSE, val |-> parsed.val.v]
          ELSE [threw |-> FALSE, val |-> <<>>]

\* mutant: readHistory without its try/catch
ReadHistory_NoCatch(st) == ReadHistoryTry(st)

ReadHistory(st) ==
  LET body == ReadHistoryTry(st)
  IN IF body.threw THEN [threw |-> FALSE, val |-> <<>>] ELSE body

\* what localStorage.setItem does: w is "throws" when the quota is exceeded
SetItemThrows(st, w) == st.denied \/ w = "throws"

\* mutant: setItem is handed the array itself, which it turns into a string
WriteHistoryTry_NoStringify(st, history, w) ==
  IF SetItemThrows(st, w) THEN [threw |-> TRUE, st |-> st]
  ELSE [threw |-> FALSE, st |-> Item(ToStr(Arr(history)))]

\* the try block of writeHistory
WriteHistoryTry(st, history, w) ==
  IF SetItemThrows(st, w) THEN [threw |-> TRUE, st |-> st]
  ELSE [threw |-> FALSE, st |-> Item(Stringify(Arr(history)))]

\* mutant: writeHistory without its try/catch
WriteHistory_NoCatch(st, history, w) == WriteHistoryTry(st, history, w)

WriteHistory(st, history, w) ==
  LET body == WriteHistoryTry(st, history, w)
  IN IF body.threw THEN [threw |-> FALSE, st |-> st] ELSE body

\* useEffect(..., [conversation]): runs when the conversation changed
\* mutant: the effect has no guard against the empty conversation
PersistSkips_Never(conv) == FALSE

\* if (!conversation.length) return;
PersistSkips(conv) == conv = <<>>

PersistRuns(prev, conv) == conv # prev /\ ~PersistSkips(conv)

\* mutant: the effect writes the conversation of the previous render
PersistEffect_Stale(prev, conv, w) ==
  IF PersistRuns(prev, conv)
  THEN /\ storage' = WriteHistory(storage, prev, w).st
       /\ lastWrite' = IF SetItemThrows(storage, w) THEN "throws" ELSE "ok"
       /\ written' = IF SetItemThrows(storage, w) THEN written
                     ELSE [has |-> TRUE, val |-> conv]
  ELSE UNCHANGED <<storage, lastWrite, written>>

PersistEffect(prev, conv, w) ==
  IF PersistRuns(prev, conv)
  THEN /\ storage' = WriteHistory(storage, conv, w).st
       /\ lastWrite' = IF SetItemThrows(storage, w) THEN "throws" ELSE "ok"
       /\ written' = IF SetItemThrows(storage, w) THEN written
                     ELSE [has |-> TRUE, val |-> conv]
  ELSE UNCHANGED <<storage, lastWrite, written>>

PersistThrew(prev, conv, w) ==
  PersistRuns(prev, conv) /\ WriteHistory(storage, conv, w).threw

IoOutcomes == {"ok", "throws"}

\* a render that commits conv as the conversation, followed by its effects;
\* thrown names the failures that escaped the code run before it
CommitConversation(conv, w, thrown) ==
  /\ conversation' = conv
  /\ PersistEffect(conversation, conv, w)
  /\ escaped' = escaped \cup thrown
       \cup (IF PersistThrew(conversation, conv, w) THEN {"persist effect"} ELSE {})

\* ------------------------------------------------------------------------
\* App: handleUserMessage / handleAiMessage
\* ------------------------------------------------------------------------
\* message is a JavaScript value (a string for every caller in the source)
UserMessage(message) ==
  Obj(<< <<<<"role">>, Str(<<"user">>)>>, <<<<"content">>, message>> >>)

\* reminders is an array, or Null for an omitted argument
AiMessage(message, reminders) ==
  Obj(<< <<<<"role">>, Str(<<"ai">>)>>,
         <<<<"content">>, message>>,
         <<<<"reminders">>, IF Truthy(reminders) THEN reminders ELSE Arr(<<>>)>> >>)

\* mutant: the update drops the previous conversation
handleUserMessage_Restarts(prev, message) == <<UserMessage(message)>>

handleUserMessage(prev, message) == Append(prev, UserMessage(message))

\* mutant: the message is put in front
handleAiMessage_Prepends(prev, message, reminders) ==
  <<AiMessage(message, reminders)>> \o prev

handleAiMessage(prev, message, reminders) == Append(prev, AiMessage(message, reminders))

\* ------------------------------------------------------------------------
\* ChatBox.handleSendClick: what the awaited POST /items settles to
\* ------------------------------------------------------------------------
\* an axios outcome: kind ok (2xx), resp (error.response), noresp
\* (error.request only), local (neither)
Outcome(kind, status, statusText, data, message) ==
  [kind |-> kind, status |-> status, statusText |-> statusText,
   data |-> data, message |-> message]

\* the TypeError of reading property prop of null
TypeErrorOf(prop) ==
  Outcome("local", 0, <<>>, Null,
          <<"Cannot read properties of null (reading '", prop, "')">>)

\* x[k] where x is not null: undefined (Null here) unless an object has k
Prop(x, k) == IF HasKey(x, k) THEN Get(x, k) ELSE Null

\* mutant: the message field of the response is ignored
SuccessContent_IgnoresMessage(data) ==
  Str(<<"Successfully added ">>
      \o ToStr(IF Truthy(Prop(data, <<"count">>))
               THEN Prop(data, <<"count">>) ELSE Num(0))
      \o <<" items.">>)

\* response.data.message || `Successfully added ${response.data.count || 0} items.`
SuccessContent(data) ==
  IF Truthy(Prop(data, <<"message">>)) THEN Prop(data, <<"message">>)
  ELSE Str(<<"Successfully added ">>
           \o ToStr(IF Truthy(Prop(data, <<"count">>))
                    THEN Prop(data, <<"count">>) ELSE Num(0))
           \o <<" items.">>)

\* the try block: the content handed to onAiMessage, or the error thrown
SendTry(o) ==
  IF o.kind # "ok" THEN [threw |-> TRUE, error |-> o, content |-> Null]
  ELSE IF o.data.t = "null"
    THEN [threw |-> TRUE, error |-> TypeErrorOf("message"), content |-> Null]
  ELSE [threw |-> FALSE, error |-> o, content |-> SuccessContent(o.data)]

QUOTA_STATUS == 429

\* mutant: the error field of the body is looked at before the status
SendCatch_ErrorFieldFirst(error) ==
  IF error.kind = "resp" THEN
    IF error.data.t = "null" THEN [threw |-> TRUE, content |-> <<>>]
    ELSE IF Truthy(Prop(error.data, <<"error">>)) THEN
      [threw |-> FALSE, content |->
        <<"Server Error (">> \o NumStr(error.status) \o <<"): ">>
        \o ToStr(Prop(error.data, <<"error">>))]
    ELSE IF error.status = QUOTA_STATUS THEN
      [threw |-> FALSE, content |->
        <<"API Quota Error (429): Your daily/minute limit has been reached. Please wait.">>]
    ELSE
      [threw |-> FALSE, content |->
        <<"HTTP Error ">> \o NumStr(error.status) \o <<": ">> \o error.statusText]
  ELSE IF error.kind = "noresp" THEN
    [threw |-> FALSE, content |-> <<"Network Error: The server did not respond.">>]
  ELSE [threw |-> FALSE, content |-> error.message]

\* the catch block: the errorMessage, or the error the block itself throws
SendCatch(error) ==
  IF error.kind = "resp" THEN
    IF error.status = QUOTA_STATUS THEN
      [threw |-> FALSE, content |->
        <<"API Quota Error (429): Your daily/minute limit has been reached. Please wait.">>]
    ELSE IF error.data.t = "null" THEN [threw |-> TRUE, content |-> <<>>]
    ELSE IF Truthy(Prop(error.data, <<"error">>)) THEN
      [threw |-> FALSE, content |->
        <<"Server Error (">> \o NumStr(error.status) \o <<"): ">>
        \o ToStr(Prop(error.data, <<"error">>))]
    ELSE
      [threw |-> FALSE, content |->
        <<"HTTP Error ">> \o NumStr(error.status) \o <<": ">> \o error.statusText]
  ELSE IF error.kind = "noresp" THEN
    [threw |-> FALSE, content |-> <<"Network Error: The server did not respond.">>]
  ELSE [threw |-> FALSE, content |-> error.message]

\* try + catch: whether onAiMessage is called, with what, and whether the
\* promise of handleSendClick rejects
Caught(c) ==
  IF c.threw THEN [said |-> FALSE, content |-> Null, threw |-> TRUE]
  ELSE [said |-> TRUE, content |-> Str(<<"Error: ">> \o c.content), threw |-> FALSE]

Tried(t) ==
  IF ~t.threw THEN [said |-> TRUE, content |-> t.content, threw |-> FALSE]
  ELSE Caught(SendCatch(t.error))

SendSettle(o) == Tried(SendTry(o))

\* ------------------------------------------------------------------------
\* App.handleCheckExpiries: the reply to a GET /expiry response
\* ------------------------------------------------------------------------
EXPIRY_PROMPT == <<"Show me a list of all expiring items in the next 7 days.">>

BULLET == "* "

RECURSIVE Bullets(_, _)
\* expiryData.map((item) => `<bullet> ${item}`).join("\n"); BULLET is U+2022 and a blank
Bullets(items, i) ==
  IF i > Len(items) THEN <<>>
  ELSE (IF i > 1 THEN <<NEWLINE>> ELSE <<>>)
       \o <<BULLET>> \o ToStr(items[i]) \o Bullets(items, i + 1)

\* mutant: a list is dumped like any other object
ExpiryMessage_DumpsLists(expiryData) ==
  IF expiryData.t \in {"arr", "obj"} THEN
    <<"Expiring items:", NEWLINE, NEWLINE>> \o Pretty(expiryData, 0)
  ELSE <<"Great news! No items are expiring soon.">>

ExpiryMessage(expiryData) ==
  IF expiryData.t = "arr" /\ Len(expiryData.v) > 0 THEN
    <<"Expiring items:", NEWLINE, NEWLINE>> \o Bullets(expiryData.v, 1)
  ELSE IF expiryData.t \in {"arr", "obj"} THEN
    <<"Expiring items:", NEWLINE, NEWLINE>> \o Pretty(expiryData, 0)
  ELSE <<"Great news! No items are expiring soon.">>

ExpiryReply(o) ==
  IF o.kind = "ok" THEN ExpiryMessage(o.data)
  ELSE <<"Error fetching expiry items. Please try again.">>

\* ------------------------------------------------------------------------
\* Inputs of the environment
\* ------------------------------------------------------------------------
\* values the user types into the textarea
QuestionInputs ==
  { <<BLANK, NEWLINE>>, <<BLANK, "a", NEWLINE>> }

\* bodies of a 2xx POST /items response; the null body makes the try block
\* throw a TypeError, the local failure of the catch block's last branch
OkData ==
  { Obj(<< <<<<"message">>, Str(<<"Added milk">>)>> >>),
    Obj(<< <<<<"count">>, Num(3)>> >>),
    Obj(<<>>),
    Null }

\* bodies of a non-2xx POST /items response
ErrorBody == Obj(<< <<<<"error">>, Str(<<"bad prompt">>)>> >>)

ErrorData == { ErrorBody, Obj(<<>>), Null }

PostOutcomes ==
  { Outcome("ok", 200, <<"OK">>, d, <<>>) : d \in OkData }
  \cup { Outcome("resp", QUOTA_STATUS, <<"TOO MANY REQUESTS">>, ErrorBody,
                 <<"Request failed">>) }
  \cup { Outcome("resp", 500, <<"INTERNAL SERVER ERROR">>, d, <<"Request failed">>) :
           d \in ErrorData }
  \cup { Outcome("noresp", 0, <<>>, Null, <<"Network Error">>) }

\* bodies of a 2xx GET /expiry response
ExpiryData ==
  { Arr(<<Str(<<"milk">>), Str(<<"eggs">>)>>),
    Arr(<<>>),
    Obj(<< <<<<"milk">>, Str(<<"2 days">>)>> >>),
    Null }

ExpiryOutcomes ==
  { Outcome("ok", 200, <<"OK">>, d, <<>>) : d \in ExpiryData }
  \cup { Outcome("noresp", 0, <<>>, Null, <<"Network Error">>) }

GroceryItem(id, name) ==
  Obj(<< <<<<"id">>, Num(id)>>, <<<<"name">>, Str(name)>>,
         <<<<"qty">>, Num(1)>>, <<<<"expiry">>, Str(<<>>)>> >>)

\* bodies of a 2xx GET /items response
ItemsData ==
  { Arr(<<GroceryItem(1, <<"milk">>)>>),
    Arr(<<GroceryItem(1, <<"milk">>), GroceryItem(2, <<"eggs">>)>>),
    Obj(<< <<<<"error">>, Str(<<"no list">>)>> >>) }

ItemsOutcomes ==
  { Outcome("ok", 200, <<"OK">>, d, <<>>) : d \in ItemsData }
  \cup { Outcome("noresp", 0, <<>>, Null, <<"Network Error">>) }

\* what an earlier session may have left under the storage key
InitialStorage ==
  { NoItem,
    Item(Stringify(Arr(<<UserMessage(Str(<<"a">>)),
                         AiMessage(Str(<<"Added milk">>), Null)>>))),
    Denied }

\* ------------------------------------------------------------------------
\* Initial state: before the App component mounts
\* ------------------------------------------------------------------------
InitMemory ==
  /\ mounted = FALSE
  /\ lastWrite = "none"
  /\ written = NoHistory
  /\ conversation = <<>>
  /\ isLoading = FALSE
  /\ groceryList = Arr(<<>>)
  /\ triggerFetch = FALSE
  /\ question = <<>>
  /\ postFlight = <<>>
  /\ expiryFlight = 0
  /\ itemsFlight = 0
  /\ escaped = {}
  /\ calls = [flows |-> 0, appends |-> 0]
  /\ lastEvent = "init"

Init == storage \in InitialStorage /\ InitMemory

\* ------------------------------------------------------------------------
\* App mount: hydration effect, persist effect, fetchGroceryList effect
\* ------------------------------------------------------------------------
\* useEffect(..., [triggerFetch]) runs again when the dependency changed
FetchEffectRuns(prev, next) == prev # next

Hydrate(conv, history) == IF Len(history) > 0 THEN history ELSE conv

\* the effects of the first render, then the render of the hydrated
\* conversation conv. The persist effect runs after the first render
\* whatever its dependency, over the initial conversation; a write made by
\* that run is overwritten by the write that follows a hydration
MountCommit(conv, w, thrown) ==
  IF PersistSkips(conversation) \/ conv # conversation
  THEN CommitConversation(conv, w, thrown)
  ELSE /\ conversation' = conv
       /\ storage' = WriteHistory(storage, conversation, w).st
       /\ lastWrite' = IF SetItemThrows(storage, w) THEN "throws" ELSE "ok"
       /\ written' = IF SetItemThrows(storage, w) THEN written
                     ELSE [has |-> TRUE, val |-> conversation]
       /\ escaped' = escaped \cup thrown
            \cup (IF WriteHistory(storage, conversation, w).threw
                  THEN {"persist effect"} ELSE {})

\* const history = readHistory(); if (history.length) setConversation(history);
HydrationEffect(h, w) ==
  MountCommit(IF h.threw THEN conversation ELSE Hydrate(conversation, h.val),
              w, IF h.threw THEN {"hydration effect"} ELSE {})

Mount(w) ==
  /\ ~mounted
  /\ HydrationEffect(ReadHistory(storage), w)
  /\ mounted' = TRUE
  /\ itemsFlight' = itemsFlight + 1
  /\ lastEvent' = "mount"
  /\ UNCHANGED <<isLoading, groceryList, triggerFetch, question, postFlight,
                 expiryFlight, calls>>

\* ------------------------------------------------------------------------
\* ChatBox
\* ------------------------------------------------------------------------
\* onChange of the textarea, which is disabled while loading
SetQuestion(q) ==
  /\ mounted
  /\ ~isLoading
  /\ question' = q
  /\ lastEvent' = "setQuestion"
  /\ UNCHANGED <<mounted, storage, lastWrite, written, conversation,
                 isLoading, groceryList, triggerFetch, postFlight, expiryFlight,
                 itemsFlight, escaped, calls>>

\* mutant: the entry guard is left out
SendRejected_NoGuard(q, loading) == FALSE

\* mutant: the guard tests the raw input, not the trimmed one
SendRejected_NoTrim(q, loading) == q = <<>> \/ loading

\* if (!question.trim() || isLoading) return;
SendRejected(q, loading) == Trim(q) = <<>> \/ loading

\* handleSendClick up to its await: by a click on the button or by Enter
handleSendClick(w) ==
  /\ mounted
  /\ lastEvent' = "send"
  /\ IF SendRejected(question, isLoading)
     THEN UNCHANGED <<mounted, storage, lastWrite, written,
                      conversation, isLoading, groceryList, triggerFetch,
                      question, postFlight, expiryFlight, itemsFlight, escaped,
                      calls>>
     ELSE /\ calls.flows < MaxFlows
          /\ isLoading' = TRUE
          /\ CommitConversation(handleUserMessage(conversation, Str(Trim(question))),
                                w, {})
          /\ question' = <<>>
          /\ postFlight' = Append(postFlight, Trim(question))
          /\ calls' = [calls EXCEPT !.flows = @ + 1]
          /\ UNCHANGED <<mounted, groceryList, triggerFetch,
                         expiryFlight, itemsFlight>>

\* mutant: the loading flag is not reset
SendFinally_KeepsLoading(loading, trigger) == [isLoading |-> loading, triggerFetch |-> TRUE]

\* the finally block: onLoadingChange(false); setTriggerFetch(true)
SendFinally(loading, trigger) == [isLoading |-> FALSE, triggerFetch |-> TRUE]

RemoveAt(s, i) == SubSeq(s, 1, i - 1) \o SubSeq(s, i + 1, Len(s))

\* handleSendClick from its await on: the i-th pending POST settles as o
\* r is what try and catch settled to, f what the finally block sets
PostSettled(r, f, w) ==
  /\ CommitConversation(IF r.said THEN handleAiMessage(conversation, r.content, Null)
                        ELSE conversation,
                        w, IF r.threw THEN {"handleSendClick"} ELSE {})
  /\ isLoading' = f.isLoading
  /\ triggerFetch' = f.triggerFetch
  /\ itemsFlight' = itemsFlight
       + (IF FetchEffectRuns(triggerFetch, f.triggerFetch) THEN 1 ELSE 0)

PostResolve(i, o, w) ==
  /\ i \in 1..Len(postFlight)
  /\ PostSettled(SendSettle(o), SendFinally(isLoading, triggerFetch), w)
  /\ postFlight' = RemoveAt(postFlight, i)
  /\ lastEvent' = "postResolve"
  /\ UNCHANGED <<mounted, groceryList, question, expiryFlight, calls>>

\* ------------------------------------------------------------------------
\* App.handleCheckExpiries
\* ------------------------------------------------------------------------
\* up to its await: the click on "Check Expiries soon"
handleCheckExpiries(w) ==
  /\ mounted
  /\ calls.flows < MaxFlows
  /\ CommitConversation(handleUserMessage(conversation, Str(EXPIRY_PROMPT)), w, {})
  /\ expiryFlight' = expiryFlight + 1
  /\ calls' = [calls EXCEPT !.flows = @ + 1]
  /\ lastEvent' = "checkExpiries"
  /\ UNCHANGED <<mounted, isLoading, groceryList, triggerFetch,
                 question, postFlight, itemsFlight>>

\* from its await on: a pending GET /expiry settles as o
ExpiryResolve(o, w) ==
  /\ expiryFlight > 0
  /\ CommitConversation(handleAiMessage(conversation, Str(ExpiryReply(o)), Null), w, {})
  /\ expiryFlight' = expiryFlight - 1
  /\ lastEvent' = "expiryResolve"
  /\ UNCHANGED <<mounted, isLoading, groceryList, triggerFetch,
                 question, postFlight, itemsFlight, calls>>

\* ------------------------------------------------------------------------
\* App.fetchGroceryList from its await on: a pending GET /items settles as o
\* ------------------------------------------------------------------------
\* mutant: a failed fetch empties the cached list
FetchedList_ClearsOnFailure(list, o) == IF o.kind = "ok" THEN o.data ELSE Arr(<<>>)

\* mutant: a response is dropped once a list has been cached
FetchedList_KeepsFirst(list, o) ==
  IF o.kind = "ok" /\ list = Arr(<<>>) THEN o.data ELSE list

\* try { setGroceryList(items.data) } catch { console.error(...) }
FetchedList(list, o) == IF o.kind = "ok" THEN o.data ELSE list

ItemsResolve(o) ==
  /\ itemsFlight > 0
  /\ groceryList' = FetchedList(groceryList, o)
  /\ itemsFlight' = itemsFlight - 1
  /\ lastEvent' = "itemsResolve"
  /\ UNCHANGED <<mounted, storage, lastWrite, written, conversation,
                 isLoading, triggerFetch, question, postFlight, expiryFlight,
                 escaped, calls>>

\* GroceryList: groceryList.map(...) returns the rows when the prop is an
\* array and throws a TypeError during render when it is not
GroceryListRenders(list) == list.t = "arr"

\* ------------------------------------------------------------------------
\* The chat side of the application. ItemsResolve, the only other action,
\* changes groceryList, itemsFlight and lastEvent alone.
\* ------------------------------------------------------------------------
\* the chat submission flow, the expiry check and the conversation store
ChatNext ==
  \/ \E w \in IoOutcomes : Mount(w)
  \/ \E q \in QuestionInputs : SetQuestion(q)
  \/ \E w \in IoOutcomes : handleSendClick(w)
  \/ \E i \in 1..Len(postFlight), o \in PostOutcomes, w \in IoOutcomes : PostResolve(i, o, w)
  \/ \E w \in IoOutcomes : handleCheckExpiries(w)
  \/ \E o \in ExpiryOutcomes, w \in IoOutcomes : ExpiryResolve(o, w)

ChatSpec == Init /\ [][ChatNext]_vars

\* what the scheduling of the browser guarantees: a request that was sent
\* settles (axios resolves or rejects its promise)
FairChatSpec ==
  ChatSpec /\ WF_vars(\E i \in 1..Len(postFlight), o \in PostOutcomes, w \in IoOutcomes :
                        PostResolve(i, o, w))

\* ------------------------------------------------------------------------
\* The chat submission flow alone: typing, sending, the POST settling
\* ------------------------------------------------------------------------
SendNext ==
  \/ \E w \in IoOutcomes : Mount(w)
  \/ \E q \in QuestionInputs : SetQuestion(q)
  \/ \E w \in IoOutcomes : handleSendClick(w)
  \/ \E i \in 1..Len(postFlight), o \in PostOutcomes, w \in IoOutcomes : PostResolve(i, o, w)

SendSpec == Init /\ [][SendNext]_vars

\* ------------------------------------------------------------------------
\* Submissions and expiry checks interleaved. What a POST /items reply says
\* plays no part here, so one outcome stands for each way it can end: with
\* a reply, with an error message, with no message at all
\* ------------------------------------------------------------------------
OverlapOutcomes ==
  { Outcome("ok", 200, <<"OK">>, Obj(<< <<<<"message">>, Str(<<"Added milk">>)>> >>), <<>>),
    Outcome("resp", 500, <<"INTERNAL SERVER ERROR">>, Null, <<"Request failed">>),
    Outcome("noresp", 0, <<>>, Null, <<"Network Error">>) }

OverlapNext ==
  \/ \E w \in IoOutcomes : Mount(w)
  \/ \E q \in QuestionInputs : SetQuestion(q)
  \/ \E w \in IoOutcomes : handleSendClick(w)
  \/ \E i \in 1..Len(postFlight), o \in OverlapOutcomes, w \in IoOutcomes : PostResolve(i, o, w)
  \/ \E w \in IoOutcomes : handleCheckExpiries(w)
  \/ \E o \in ExpiryOutcomes, w \in IoOutcomes : ExpiryResolve(o, w)

OverlapSpec == Init /\ [][OverlapNext]_vars

\* ------------------------------------------------------------------------
\* The grocery side: the fetch started at mount, the fetches started by
\* submissions, and their responses. Fetches in flight carry no identity in
\* the source, so any of them may be the next to complete.
\* ------------------------------------------------------------------------
GroceryNext ==
  \/ \E w \in IoOutcomes : Mount(w)
  \/ \E q \in QuestionInputs : SetQuestion(q)
  \/ \E w \in IoOutcomes : handleSendClick(w)
  \/ \E i \in 1..Len(postFlight), o \in PostOutcomes, w \in IoOutcomes : PostResolve(i, o, w)
  \/ \E o \in ItemsOutcomes : ItemsResolve(o)

GrocerySpec == Init /\ [][GroceryNext]_vars

\* ------------------------------------------------------------------------
\* The conversation store alone: appends with arbitrary texts, page reloads
\* ------------------------------------------------------------------------
\* the page is reloaded: memory is lost, localStorage stays
Reload ==
  /\ mounted
  /\ mounted' = FALSE
  /\ lastWrite' = "none"
  /\ conversation' = <<>>
  /\ isLoading' = FALSE
  /\ groceryList' = Arr(<<>>)
  /\ triggerFetch' = FALSE
  /\ question' = <<>>
  /\ postFlight' = <<>>
  /\ expiryFlight' = 0
  /\ itemsFlight' = 0
  /\ escaped' = {}
  /\ lastEvent' = "reload"
  /\ UNCHANGED <<storage, written, calls>>

\* texts of messages, with the characters JSON escapes
MessageTexts ==
  { <<>>, <<"a">>, <<QUOTE>>, <<BSLASH, "n">>, <<NEWLINE, BSLASH>>,
    <<"[", ",", BLANK, "}">> }

ReminderLists == { Null, Arr(<<Str(<<"r", QUOTE>>), Str(<<>>)>>) }

StoreUserMessage(m, w) ==
  /\ mounted
  /\ calls.appends < MaxAppends
  /\ CommitConversation(handleUserMessage(conversation, Str(m)), w, {})
  /\ calls' = [calls EXCEPT !.appends = @ + 1]
  /\ lastEvent' = "userMessage"
  /\ UNCHANGED <<mounted, isLoading, groceryList, triggerFetch, question,
                 postFlight, expiryFlight, itemsFlight>>

StoreAiMessage(m, reminders, w) ==
  /\ mounted
  /\ calls.appends < MaxAppends
  /\ CommitConversation(handleAiMessage(conversation, Str(m), reminders), w, {})
  /\ calls' = [calls EXCEPT !.appends = @ + 1]
  /\ lastEvent' = "aiMessage"
  /\ UNCHANGED <<mounted, isLoading, groceryList, triggerFetch, question,
                 postFlight, expiryFlight, itemsFlight>>

StoreInit == storage = NoItem /\ InitMemory

StoreNext ==
  \/ \E w \in IoOutcomes : Mount(w)
  \/ \E m \in MessageTexts, w \in IoOutcomes : StoreUserMessage(m, w)
  \/ \E m \in MessageTexts, r \in ReminderLists, w \in IoOutcomes : StoreAiMessage(m, r, w)
  \/ Reload

StoreSpec == StoreInit /\ [][StoreNext]_vars

\* ------------------------------------------------------------------------
\* readHistory alone: startup over every short blob under the storage key
\* ------------------------------------------------------------------------
JsonChars == {"[", "]", "{", "}", ",", ":", QUOTE, "a", BLANK, "null"}

Blobs == UNION { [1..n -> JsonChars] : n \in 0..MaxBlobLen }

LoadInit ==
  /\ storage \in {NoItem, Denied} \cup { Item(b) : b \in Blobs } \cup InitialStorage
  /\ InitMemory

LoadNext ==
  \/ \E w \in IoOutcomes : Mount(w)
  \/ Reload

LoadSpec == LoadInit /\ [][LoadNext]_vars

\* ------------------------------------------------------------------------
\* The whole application
\* ------------------------------------------------------------------------
Next ==
  \/ \E w \in IoOutcomes : Mount(w)
  \/ \E q \in QuestionInputs : SetQuestion(q)
  \/ \E w \in IoOutcomes : handleSendClick(w)
  \/ \E i \in 1..Len(postFlight), o \in PostOutcomes, w \in IoOutcomes : PostResolve(i, o, w)
  \/ \E w \in IoOutcomes : handleCheckExpiries(w)
  \/ \E o \in ExpiryOutcomes, w \in IoOutcomes : ExpiryResolve(o, w)
  \/ \E o \in ItemsOutcomes : ItemsResolve(o)

Spec == Init /\ [][Next]_vars

\* ========================================================================
\* Claims
\* ========================================================================
Last(seq) == seq[Len(seq)]
Role(m) == Prop(m, <<"role">>)
Content(m) == Prop(m, <<"content">>)
IsUser(m) == Role(m) = Str(<<"user">>)
IsAi(m) == Role(m) = Str(<<"ai">>)
\* conv2 is conv1 with exactly one message added at the end
AppendsOne(conv1, conv2) ==
  Len(conv2) = Len(conv1) + 1 /\ SubSeq(conv2, 1, Len(conv1)) = conv1

\* steps, told by what they do to the requests in flight
PostSent == Len(postFlight') > Len(postFlight)
PostResolved == Len(postFlight') < Len(postFlight)
ExpiryResolved == expiryFlight' < expiryFlight

\* state other than lastEvent
appState == <<mounted, storage, lastWrite, written, conversation, isLoading,
              groceryList, triggerFetch, question, postFlight, expiryFlight,
              itemsFlight, escaped, calls>>

\* C1: every chat submission that resolves, by success or by any failure,
\* starts exactly one new GET /items fetch.
C1_OneRefetchPerSubmission == [][PostResolved => itemsFlight' = itemsFlight + 1]_vars

\* C2: at most one POST /items is in flight at any time, and a submission
\* attempt made while the flow is Sending changes nothing: no message, no
\* request, input and loading flag as they were.
C2_SingleFlight ==
  /\ [](Len(postFlight) <= 1)
  /\ [][(lastEvent' = "send" /\ isLoading) => UNCHANGED appState]_vars

\* a submission attempt was made, and rejected, while a request was in flight
C2_Witness == lastEvent = "send" /\ isLoading /\ Len(postFlight) = 1

\* C3: a submission that passes the entry guard appends one user message
\* with the trimmed text; when its request resolves exactly one assistant
\* message follows, prefixed "Error: " on every failure, and no failure
\* escapes handleSendClick.
C3_OneReplyPerSubmission ==
  [][/\ PostSent =>
          /\ AppendsOne(conversation, conversation')
          /\ Last(conversation') = UserMessage(Str(Trim(question)))
     /\ \A o \in PostOutcomes, w \in IoOutcomes :
          PostResolve(1, o, w) =>
            /\ AppendsOne(conversation, conversation')
            /\ IsAi(Last(conversation'))
            /\ o.kind # "ok" => Head(Content(Last(conversation')).v) = "Error: "
            /\ "handleSendClick" \notin escaped'
    ]_vars

\* C4: whenever the flow is Sending it returns to Idle once the request
\* has completed; the loading flag never stays true.
C4_SendingReturnsToIdle == isLoading ~> ~isLoading

\* a request is awaited with the loading flag set
C4_Witness == isLoading /\ Len(postFlight) = 1

\* C5: a submission attempt whose input is empty or whitespace-only changes
\* nothing: no message, no request, loading flag and refetch trigger as
\* they were.
C5_BlankInputRejected ==
  [][(lastEvent' = "send" /\ Trim(question) = <<>>) => UNCHANGED appState]_vars

\* a submission attempt was made with whitespace-only input while Idle
C5_Witness ==
  lastEvent = "send" /\ ~isLoading /\ question = <<BLANK, NEWLINE>>

\* C6: after every append whose storage write succeeds the stored blob is
\* exactly the serialization of the conversation in memory, a write is
\* attempted after every append, and while nothing was appended the stored
\* copy loads as the empty conversation.
C6_StoredIsSerialization ==
  mounted =>
    /\ lastWrite = "ok" => storage = Item(Stringify(Arr(conversation)))
    /\ conversation # <<>> => lastWrite # "none"
    /\ conversation = <<>> => ReadHistory(storage).val = <<>>

\* a user turn, its reply, an expiry prompt and its reply were appended and
\* the last write succeeded
C6_Witness ==
  /\ lastWrite = "ok"
  /\ Len(conversation) = 4
  /\ \E i \in 1..4 : conversation[i] = UserMessage(Str(EXPIRY_PROMPT))
  /\ \E i \in 1..4 : conversation[i] = UserMessage(Str(<<"a">>))

\* C7: what was persisted is what the next startup loads: after a reload
\* the conversation equals the sequence last stored, message by message.
C7_RoundTrip == (lastEvent = "mount" /\ written.has) => conversation = written.val

\* two messages with characters JSON escapes were stored and loaded again
C7_Witness ==
  /\ lastEvent = "mount"
  /\ written.has
  /\ Len(conversation) = 2
  /\ Content(conversation[1]) = Str(<<NEWLINE, BSLASH>>)
  /\ Content(conversation[2]) = Str(<<QUOTE>>)

\* the stored value is one readHistory treats as "no history"
IsArrayText(p) == p.ok /\ p.val.t = "arr"
NoStoredHistory(st) ==
  st.denied \/ ~st.has \/ st.raw = <<>> \/ ~IsArrayText(JsonParse(st.raw))

\* C8: startup over a missing, empty, malformed or non-array stored value,
\* or over a storage whose read fails, throws nothing and leaves the
\* conversation empty.
C8_LoadFailsSoft ==
  [][(~mounted /\ mounted') =>
       /\ escaped' = {}
       /\ NoStoredHistory(storage) => conversation' = <<>>
    ]_vars

\* the application started over a stored value that is not valid JSON
C8_Witness ==
  /\ mounted
  /\ storage.has /\ storage.raw # <<>> /\ ~JsonParse(storage.raw).ok
  /\ conversation = <<>>

\* C9: a rejected storage write leaves the store as it was and the append
\* in memory: the message stays, nothing escapes the persist effect, the
\* submission still completes, and the next write that succeeds stores the
\* whole current conversation.
C9_WriteFailureHarmless ==
  [][/\ (conversation' # conversation /\ lastWrite' = "throws") =>
          /\ storage' = storage
          /\ "persist effect" \notin escaped'
          /\ mounted => AppendsOne(conversation, conversation')
     /\ (lastWrite = "throws" /\ PostResolved) => ~isLoading'
     /\ (lastWrite = "throws" /\ conversation' # conversation /\ lastWrite' = "ok") =>
          /\ AppendsOne(conversation, conversation')
          /\ storage' = Item(Stringify(Arr(conversation')))
    ]_vars

\* the user turn was stored, the write of the reply was rejected: the reply
\* is in memory, the submission is over and the stored copy lags by one
C9_Witness ==
  /\ lastWrite = "throws"
  /\ lastEvent = "postResolve"
  /\ ~isLoading
  /\ Len(conversation) = 2
  /\ storage = Item(Stringify(Arr(<<conversation[1]>>)))

OkEmptyArray == Outcome("ok", 200, <<"OK">>, Arr(<<>>), <<>>)

\* C10: an expiry check answered with an empty array appends the fixed
\* message "Great news! No items are expiring soon."
C10_EmptyArrayFixedMessage ==
  [][\A w \in IoOutcomes :
       ExpiryResolve(OkEmptyArray, w) =>
         Content(Last(conversation')) = Str(<<"Great news! No items are expiring soon.">>)
    ]_vars

\* the failure a submission ends with: the rejection of the POST, or the
\* error raised while reading the body of a 2xx response
IsFailure(o) == o.kind # "ok" \/ o.data.t = "null"
FailureOf(o) == IF o.kind = "ok" THEN TypeErrorOf("message") ELSE o

\* the failure text by the stated precedence: status 429, then the error
\* field of the body, then any other response, then a request without
\* response, then the description of the failure itself
FailureText(e) ==
  IF e.kind = "resp" /\ e.status = 429 THEN
    <<"API Quota Error (429): Your daily/minute limit has been reached. Please wait.">>
  ELSE IF e.kind = "resp" /\ HasKey(e.data, <<"error">>) THEN
    <<"Server Error (">> \o NumStr(e.status) \o <<"): ">> \o Get(e.data, <<"error">>).v
  ELSE IF e.kind = "resp" THEN
    <<"HTTP Error ">> \o NumStr(e.status) \o <<": ">> \o e.statusText
  ELSE IF e.kind = "noresp" THEN <<"Network Error: The server did not respond.">>
  ELSE e.message

C13_FetchReplacesOrKeeps ==
  [][\A o \in ItemsOutcomes :
       ItemsResolve(o) =>
         /\ o.kind # "ok" => (groceryList' = groceryList /\ itemsFlight' = itemsFlight - 1)
         /\ o.kind = "ok" => groceryList' = o.data
    ]_vars

\* the fetch of the mount and the fetch started by a submission have both
\* completed and the cached list is the one-item payload
C13_Witness ==
  /\ lastEvent = "itemsResolve"
  /\ itemsFlight = 0
  /\ triggerFetch
  /\ groceryList = Arr(<<GroceryItem(1, <<"milk">>)>>)

\* only a successful GET /items response changes the cached list
OnlyFetchChangesList ==
  groceryList' # groceryList =>
    \E o \in ItemsOutcomes : o.kind = "ok" /\ ItemsResolve(o) /\ groceryList' = o.data

\* C17: fetches are never cancelled: every successful response is applied
\* on arrival, whether or not another GET /items is in flight or has
\* completed before, and the other fetches stay in flight, so the cached
\* list is the payload of the latest successful completion, and the empty
\* list before the first one.
C17_LatestCompletionWins ==
  /\ ~mounted => groceryList = Arr(<<>>)
  /\ [][/\ OnlyFetchChangesList
        /\ \A o \in ItemsOutcomes :
             (ItemsResolve(o) /\ o.kind = "ok") =>
               (groceryList' = o.data /\ itemsFlight' = itemsFlight - 1)
       ]_vars

\* of two overlapping fetches one has completed with a payload, which is
\* cached, and the other is still in flight
C17_Witness ==
  /\ lastEvent = "itemsResolve"
  /\ itemsFlight = 1
  /\ triggerFetch
  /\ groceryList = Arr(<<GroceryItem(1, <<"milk">>), GroceryItem(2, <<"eggs">>)>>)

\* C19: the cached grocery list is a sequence of items in every reachable
\* state, so that the display can always render it, also after GET /items
\* succeeded with an object for payload.
C19_ListAlwaysRenders == GroceryListRenders(groceryList)

ExpirySent == expiryFlight' > expiryFlight

\* the two-entry list and the one-member object a GET /expiry may return
ExpiryList == Arr(<<Str(<<"milk">>), Str(<<"eggs">>)>>)
ExpiryObject == Obj(<< <<<<"milk">>, Str(<<"2 days">>)>> >>)

\* C14: an expiry check appends one user message with the fixed prompt
\* and, when GET /expiry settles, one assistant message: one bulleted line
\* per entry for a non-empty list, the indented JSON text for an object
\* that is no list, "Error fetching expiry items. Please try again." for a
\* failed request; neither step changes the loading flag, the refetch
\* trigger or the cached grocery list.
C14_ExpiryCheck ==
  [][/\ ExpirySent =>
          /\ AppendsOne(conversation, conversation')
          /\ Last(conversation') = UserMessage(Str(EXPIRY_PROMPT))
          /\ UNCHANGED <<isLoading, triggerFetch, groceryList>>
     /\ \A o \in ExpiryOutcomes, w \in IoOutcomes :
          ExpiryResolve(o, w) =>
            /\ AppendsOne(conversation, conversation')
            /\ IsAi(Last(conversation'))
            /\ UNCHANGED <<isLoading, triggerFetch, groceryList>>
            /\ o.kind # "ok" =>
                 Content(Last(conversation')) =
                   Str(<<"Error fetching expiry items. Please try again.">>)
            /\ (o.kind = "ok" /\ o.data = ExpiryList) =>
                 Content(Last(conversation')) =
                   Str(<<"Expiring items:", NEWLINE, NEWLINE,
                         BULLET, "milk", NEWLINE, BULLET, "eggs">>)
            /\ (o.kind = "ok" /\ o.data = ExpiryObject) =>
                 Content(Last(conversation')) =
                   Str(<<"Expiring items:", NEWLINE, NEWLINE,
                         "{", NEWLINE, BLANK, BLANK, QUOTE, "milk", QUOTE, ":", BLANK,
                         QUOTE, "2 days", QUOTE, NEWLINE, "}">>)
    ]_vars

\* an expiry check made while a submission was loading got the bulleted
\* listing and the submission is still loading
C14_Witness ==
  /\ lastEvent = "expiryResolve"
  /\ isLoading
  /\ Len(conversation) = 3
  /\ conversation[2] = UserMessage(Str(EXPIRY_PROMPT))
  /\ Content(conversation[3]) = Str(ExpiryMessage(ExpiryList))

Users(k) == Cardinality({j \in 1..k : IsUser(conversation[j])})
Ais(k) == Cardinality({j \in 1..k : IsAi(conversation[j])})

\* C15: once the application has started the conversation only grows by
\* one message at its end per change, messages already in it keep their
\* place and content, and a reply never comes before the user turn of its
\* request: in every prefix there are at least as many user turns as
\* replies, and every request in flight has its user turn in the
\* conversation already.
C15_AppendOnly ==
  /\ [][(mounted /\ conversation' # conversation) =>
          AppendsOne(conversation, conversation')]_vars
  /\ [](/\ \A k \in 1..Len(conversation) : Users(k) >= Ais(k)
        /\ Users(Len(conversation)) - Ais(Len(conversation))
             >= Len(postFlight) + expiryFlight)

\* a submission and an expiry check were interleaved: both user turns came
\* first, then the two replies
C15_Witness ==
  /\ Len(conversation) = 4
  /\ conversation[1] = UserMessage(Str(<<"a">>))
  /\ conversation[2] = UserMessage(Str(EXPIRY_PROMPT))
  /\ IsAi(conversation[3]) /\ IsAi(conversation[4])
  /\ Content(conversation[4]) = Str(<<"Added milk">>)

HoldsHistory(st) == ~NoStoredHistory(st) /\ JsonParse(st.raw).val.v # <<>>

\* C18: starting the application makes the conversation the stored history
\* exactly when the stored value is a non-empty valid array and leaves it
\* empty otherwise; the start writes nothing when no history was loaded,
\* and after it a stored history still reads as the same sequence.
C18_StartupKeepsHistory ==
  [][(~mounted /\ mounted') =>
       /\ conversation' = IF HoldsHistory(storage) THEN JsonParse(storage.raw).val.v
                          ELSE <<>>
       /\ ~HoldsHistory(storage) => (storage' = storage /\ lastWrite' = "none")
       /\ HoldsHistory(storage) =>
            (storage'.has /\ ReadHistory(storage') = ReadHistory(storage))
    ]_vars

\* the application started over a stored history of two messages, which is
\* now the conversation and is still what the store holds
C18_Witness ==
  /\ lastEvent = "mount"
  /\ Len(conversation) = 2
  /\ IsUser(conversation[1]) /\ IsAi(conversation[2])
  /\ storage = Item(Stringify(Arr(conversation)))

====
